---- MODULE Spec2Model ----
(***************************************************************************)
(* A model of the calculator core of asdf-calc (src/src/main.rs):          *)
(* Operation::operate_with, Expression::new (the character scan with its   *)
(* one-level parenthesis recursion) and Expression::evaluate (the          *)
(* precedence-resolving reduction loop).                                   *)
(*                                                                         *)
(* Texts are sequences of one-character strings, as the scan sees them     *)
(* after `pure_text.split("")`.  An f64 is modelled as an exact rational    *)
(* [n, d] in lowest terms with d > 0, extended with the IEEE-754 special   *)
(* values: d = 0 with n = 1 (+inf), n = -1 (-inf), n = 0 (NaN).  Rounding  *)
(* and the sign of zero are not modelled: no operand the scan produces is  *)
(* -0.0, and evaluate's accumulator starts at +0.0, so the sign of a zero  *)
(* never reaches a result.                                                 *)
(*                                                                         *)
(* The run is a machine: the locals of the running activation of           *)
(* Expression::new are variables, the activations suspended in the         *)
(* recursive call at `)` are the frames of `callers`, and the locals of    *)
(* the running Expression::evaluate are variables too.  Step is one        *)
(* iteration of a loop, a call or a return.                                *)
(***************************************************************************)
EXTENDS Integers, Sequences, FiniteSets, TLC

\* ------------------------------------------------------------------ bounds

\* Every text over the alphabet of at most MaxLen characters is an input.
MaxLen == 3
\* Term sequences handed directly to evaluate have at most MaxTerms terms.
MaxTerms == 3

\* ------------------------------------------------------------------ f64

Abs(x) == IF x < 0 THEN -x ELSE x
Sign(x) == IF x < 0 THEN -1 ELSE IF x > 0 THEN 1 ELSE 0

RECURSIVE GCD(_, _)
GCD(a, b) == IF b = 0 THEN a ELSE GCD(b, a % b)

F(n, d) ==
  IF d = 0 THEN [n |-> Sign(n), d |-> 0]
  ELSE LET g == GCD(Abs(n), Abs(d))
           s == IF d < 0 THEN -1 ELSE 1
       IN [n |-> (s * n) \div g, d |-> (s * d) \div g]

Zero == [n |-> 0, d |-> 1]
NaN == [n |-> 0, d |-> 0]
PosInf == [n |-> 1, d |-> 0]
NegInf == [n |-> -1, d |-> 0]
IsNaN(a) == a.d = 0 /\ a.n = 0
IsInf(a) == a.d = 0 /\ a.n # 0

\* a + b
FAdd(a, b) ==
  IF IsNaN(a) \/ IsNaN(b) THEN NaN
  ELSE IF IsInf(a) /\ IsInf(b) THEN (IF a.n = b.n THEN a ELSE NaN)
  ELSE IF IsInf(a) THEN a
  ELSE IF IsInf(b) THEN b
  ELSE F(a.n * b.d + b.n * a.d, a.d * b.d)

\* a - b
FSub(a, b) == FAdd(a, [n |-> -b.n, d |-> b.d])

\* a * b
FMul(a, b) ==
  IF IsNaN(a) \/ IsNaN(b) THEN NaN
  ELSE IF IsInf(a) \/ IsInf(b)
       THEN (IF a.n = 0 \/ b.n = 0 THEN NaN
             ELSE [n |-> Sign(a.n) * Sign(b.n), d |-> 0])
  ELSE F(a.n * b.n, a.d * b.d)

\* a / b
FDiv(a, b) ==
  IF IsNaN(a) \/ IsNaN(b) THEN NaN
  ELSE IF IsInf(a) /\ IsInf(b) THEN NaN
  ELSE IF IsInf(a) THEN [n |-> a.n * (IF b.n < 0 THEN -1 ELSE 1), d |-> 0]
  ELSE IF IsInf(b) THEN Zero
  ELSE IF b.n = 0 THEN (IF a.n = 0 THEN NaN ELSE [n |-> Sign(a.n), d |-> 0])
  ELSE F(a.n * b.d, a.d * b.n)

\* ------------------------------------------------------------ Operation

OperationKind == {"Add", "Subtract", "Multiply", "Divide"}

Operation(kind, num) == [kind |-> kind, num |-> num]

\* operate_with with the operands of Subtract and Divide the other way round.
operate_with_swapped(self, other) ==
  CASE self.kind = "Add" -> FAdd(self.num, other)
    [] self.kind = "Subtract" -> FSub(self.num, other)
    [] self.kind = "Multiply" -> FMul(self.num, other)
    [] self.kind = "Divide" -> FDiv(self.num, other)

operate_with(self, other) ==
  CASE self.kind = "Add" -> FAdd(self.num, other)
    [] self.kind = "Subtract" -> FSub(other, self.num)
    [] self.kind = "Multiply" -> FMul(self.num, other)
    [] self.kind = "Divide" -> FDiv(other, self.num)

is_multiply_or_divide(self) == self.kind \in {"Multiply", "Divide"}

\* Expression::push_op
push_op(operations, kind, num) == Append(operations, Operation(kind, num))

\* ------------------------------------------------------------- evaluate

\* The locals of Expression::evaluate at its entry.
EvalEntry(operations) ==
  [temp_operations |-> operations, i |-> 0, result |-> Zero]

\* Accumulate with `result = num - result` for a Subtract term.
Accumulate_subtract_reversed(result, operation) ==
  CASE operation.kind = "Add" -> FAdd(result, operation.num)
    [] operation.kind = "Subtract" -> FSub(operation.num, result)
    [] OTHER -> result

\* `result += num` / `result -= num`; a Multiply or Divide term adds nothing.
Accumulate(result, operation) ==
  CASE operation.kind = "Add" -> FAdd(result, operation.num)
    [] operation.kind = "Subtract" -> FSub(result, operation.num)
    [] OTHER -> result

RemoveAt(s, k) == SubSeq(s, 1, k - 1) \o SubSeq(s, k + 1, Len(s))

\* Whether the iteration at index i takes the absorb branch.
Absorbs(es) ==
  /\ es.i + 1 < Len(es.temp_operations)
  /\ is_multiply_or_divide(es.temp_operations[es.i + 2])

\* AbsorbNext calling operate_with on the current term, not on the next.
AbsorbNext_receiver_swapped(es) ==
  LET operation == es.temp_operations[es.i + 1]
      next_operation == es.temp_operations[es.i + 2]
      folded ==
        IF operation.kind \in {"Add", "Subtract"}
        THEN [es.temp_operations EXCEPT ![es.i + 1] =
                Operation(operation.kind,
                          operate_with(operation, next_operation.num))]
        ELSE es.temp_operations
  IN [es EXCEPT !.temp_operations = RemoveAt(folded, es.i + 2)]

\* AbsorbNext removing the next term only in the Add and Subtract arms.
AbsorbNext_removes_in_arms(es) ==
  LET operation == es.temp_operations[es.i + 1]
      next_operation == es.temp_operations[es.i + 2]
  IN IF operation.kind \in {"Add", "Subtract"}
     THEN [es EXCEPT !.temp_operations =
             RemoveAt([es.temp_operations EXCEPT ![es.i + 1] =
                         Operation(operation.kind,
                                   operate_with(next_operation, operation.num))],
                      es.i + 2)]
     ELSE es

\* The absorb branch: fold the next term into the current one, remove it.
AbsorbNext(es) ==
  LET operation == es.temp_operations[es.i + 1]
      next_operation == es.temp_operations[es.i + 2]
      folded ==
        IF operation.kind \in {"Add", "Subtract"}
        THEN [es.temp_operations EXCEPT ![es.i + 1] =
                Operation(operation.kind,
                          operate_with(next_operation, operation.num))]
        ELSE es.temp_operations
  IN [es EXCEPT !.temp_operations = RemoveAt(folded, es.i + 2)]

\* The apply branches: add the current term to the result, advance.
ApplyCurrent(es) ==
  [es EXCEPT !.result = Accumulate(es.result, es.temp_operations[es.i + 1]),
             !.i = es.i + 1]

\* One iteration of the while loop.
EvalStep(es) == IF Absorbs(es) THEN AbsorbNext(es) ELSE ApplyCurrent(es)

RECURSIVE EvalLoop(_)
EvalLoop(es) ==
  IF es.i < Len(es.temp_operations) THEN EvalLoop(EvalStep(es)) ELSE es.result

\* Expression::evaluate as a function of the term sequence.
evaluate(operations) == EvalLoop(EvalEntry(operations))

\* ------------------------------------------------------------------ text

Digits == <<"0", "1", "2", "3", "4", "5", "6", "7", "8", "9">>
DigitSet == {Digits[k] : k \in 1..Len(Digits)}
DigitVal(c) == (CHOOSE k \in 1..Len(Digits) : Digits[k] = c) - 1
OperatorChars == {"+", "-", "*", "/"}
\* The characters char::is_whitespace accepts, as far as the model has them.
WhiteSpace == {" ", "\t"}

RECURSIVE TrimStart(_)
TrimStart(s) ==
  IF s # <<>> /\ s[1] \in WhiteSpace THEN TrimStart(Tail(s)) ELSE s

RECURSIVE TrimEnd(_)
TrimEnd(s) ==
  IF s # <<>> /\ s[Len(s)] \in WhiteSpace
  THEN TrimEnd(SubSeq(s, 1, Len(s) - 1)) ELSE s

\* str::trim
Trim(s) == TrimEnd(TrimStart(s))

IsNotSpace(c) == c # " "
\* `.replace(" ", "")`
RemoveSpaces(s) == SelectSeq(s, IsNotSpace)

\* PureText without the replace: only the ends are cleaned.
PureText_trim_only(text) == Trim(text)

\* `text.trim().replace(" ", "")`
PureText(text) == RemoveSpaces(Trim(text))

\* `pure_text.split("").collect()`: an empty string before the first
\* character and one after the last.
SplitChars(pure_text) == <<"">> \o pure_text \o <<"">>

RECURSIVE Pow10(_)
Pow10(k) == IF k = 0 THEN 1 ELSE 10 * Pow10(k - 1)

RECURSIVE DecimalOf(_)
\* The integer a digit string denotes.
DecimalOf(ds) ==
  IF ds = <<>> THEN 0
  ELSE 10 * DecimalOf(SubSeq(ds, 1, Len(ds) - 1)) + DigitVal(ds[Len(ds)])

IsDigit(c) == c \in DigitSet
IsDot(c) == c = "."

\* `accumulated_text.parse::<f64>()` on the model's alphabet: an optional
\* sign, then digits with at most one decimal point and at least one digit.
\* (Exponents and the words inf/nan need letters, which no input here has.)
ParseF64(s) ==
  LET signed == s # <<>> /\ s[1] \in {"+", "-"}
      body == IF signed THEN Tail(s) ELSE s
      digits == SelectSeq(body, IsDigit)
      dots == SelectSeq(body, IsDot)
      valid == /\ Len(digits) >= 1
               /\ Len(dots) <= 1
               /\ Len(digits) + Len(dots) = Len(body)
      dot == IF Len(dots) = 1
             THEN CHOOSE k \in 1..Len(body) : body[k] = "."
             ELSE Len(body) + 1
      mag == F(DecimalOf(digits), Pow10(Len(body) + 1 - dot - Len(dots)))
  IN IF ~valid THEN [ok |-> FALSE, num |-> Zero]
     ELSE [ok |-> TRUE,
           num |-> IF signed /\ s[1] = "-" THEN FSub(Zero, mag) ELSE mag]

\* ------------------------------------------------------ Expression::new

Ok(operations) == [tag |-> "Ok", operations |-> operations, text |-> <<>>]
Failure(tag, text_portion) ==
  [tag |-> tag, operations |-> <<>>, text |-> text_portion]
NoOutcome == [tag |-> "none", operations |-> <<>>, text |-> <<>>]

\* KindOf taking `-` for `+`.
KindOf_minus_as_plus(char) ==
  CASE char = "+" -> "Add"
    [] char = "-" -> "Add"
    [] char = "*" -> "Multiply"
    [] char = "/" -> "Divide"

KindOf(char) ==
  CASE char = "+" -> "Add"
    [] char = "-" -> "Subtract"
    [] char = "*" -> "Multiply"
    [] char = "/" -> "Divide"

\* `return Err(..)`; inside the recursive call, `?` hands the error on, so
\* every activation ends with it.
Fail(m, tag, text_portion) ==
  [m EXCEPT !.pc = "failed",
            !.outcome = Failure(tag, text_portion),
            !.callers = <<>>]

\* Convert the buffer and push it with the current kind, or fail.
PushParsed(m) ==
  LET parsed == ParseF64(m.accumulated_text)
  IN IF parsed.ok
     THEN [m EXCEPT !.expression =
             push_op(m.expression, m.current_determined_operation, parsed.num)]
     ELSE Fail(m, "ToF64ParseError", m.accumulated_text)

\* FlushBeforeOperator converting the buffer also when it is empty.
FlushBeforeOperator_converts_empty(m) ==
  IF ~m.inside_parenthesis THEN PushParsed(m) ELSE m

\* The operator arm of the first match.
FlushBeforeOperator(m) ==
  IF ~m.inside_parenthesis /\ Len(m.accumulated_text) > 0
  THEN PushParsed(m)
  ELSE m

\* OpenGroup without the check for an open group.
OpenGroup_nesting_ignored(m) == [m EXCEPT !.inside_parenthesis = TRUE]

\* The `(` arm.
OpenGroup(m) ==
  IF m.inside_parenthesis
  THEN Fail(m, "ExtraParenthesis", m.accumulated_text)
  ELSE [m EXCEPT !.inside_parenthesis = TRUE]

\* CloseWithoutOpen skipping the stray `)`.
CloseWithoutOpen_ignored(m) == m

\* The `)` arm when no group is open.
CloseWithoutOpen(m) == Fail(m, "ExtraParenthesis", m.accumulated_text)

\* The first match of the loop body (the `)` of an open group is CallGroup).
MatchStructure(m, char) ==
  CASE char \in OperatorChars -> FlushBeforeOperator(m)
    [] char = "(" -> OpenGroup(m)
    [] char = ")" -> CloseWithoutOpen(m)
    [] OTHER -> m

\* MatchAccumulate appending the parentheses too while a group is open.
MatchAccumulate_keeps_parentheses(m, char) ==
  IF ~m.inside_parenthesis
  THEN CASE char \in OperatorChars ->
              [m EXCEPT !.current_determined_operation = KindOf(char),
                        !.accumulated_text = <<>>]
         [] char \in {"(", ")", ""} -> m
         [] OTHER -> [m EXCEPT !.accumulated_text = Append(@, char)]
  ELSE IF char # ""
       THEN [m EXCEPT !.accumulated_text = Append(@, char)]
       ELSE m

\* MatchAccumulate taking an operator inside a group as one outside.
MatchAccumulate_operators_anywhere(m, char) ==
  CASE char \in OperatorChars ->
         [m EXCEPT !.current_determined_operation = KindOf(char),
                   !.accumulated_text = <<>>]
    [] char \in {"(", ")", ""} -> m
    [] OTHER -> [m EXCEPT !.accumulated_text = Append(@, char)]

\* The second match of the loop body: the operator kind and the buffer.
MatchAccumulate(m, char) ==
  IF ~m.inside_parenthesis
  THEN CASE char \in OperatorChars ->
              [m EXCEPT !.current_determined_operation = KindOf(char),
                        !.accumulated_text = <<>>]
         [] char \in {"(", ")", ""} -> m
         [] OTHER -> [m EXCEPT !.accumulated_text = Append(@, char)]
  ELSE IF char \notin {"(", ")", ""}
       THEN [m EXCEPT !.accumulated_text = Append(@, char)]
       ELSE m

\* The flush after the last element of chars.
FlushAtEnd(m) ==
  IF m.idx + 1 = Len(m.chars) /\ Len(m.accumulated_text) > 0
  THEN PushParsed(m)
  ELSE m

\* The end of an iteration: the flush, and on to the next element.
EndIteration(m) ==
  LET f == FlushAtEnd(m)
  IN IF f.pc = "failed" THEN f ELSE [f EXCEPT !.idx = m.idx + 1]

\* The rest of the loop body after the first match.
AfterStructure(m, char) ==
  IF m.pc = "failed" THEN m ELSE EndIteration(MatchAccumulate(m, char))

\* One iteration of the for loop that makes no call.
Iterate(m) ==
  LET char == m.chars[m.idx + 1]
  IN AfterStructure(MatchStructure(m, char), char)

\* The locals of an activation of new on `text`, before its loop.
Enter(m, text) ==
  [m EXCEPT !.chars = SplitChars(PureText(text)),
            !.idx = 0,
            !.expression = <<>>,
            !.current_determined_operation = "Add",
            !.accumulated_text = <<>>,
            !.inside_parenthesis = FALSE]

Frame(m) ==
  [chars |-> m.chars,
   idx |-> m.idx,
   expression |-> m.expression,
   current_determined_operation |-> m.current_determined_operation,
   accumulated_text |-> m.accumulated_text,
   inside_parenthesis |-> m.inside_parenthesis]

\* The `)` of an open group: the flag is cleared and new is called on the
\* buffer; the caller waits in the middle of its iteration.
CallGroup(m) ==
  LET waiting == [m EXCEPT !.inside_parenthesis = FALSE]
  IN Enter([waiting EXCEPT !.callers = Append(@, Frame(waiting))],
           m.accumulated_text)

\* `Ok(expression)` of the outermost activation.
ReturnToApp(m) == [m EXCEPT !.pc = "parsed", !.outcome = Ok(m.expression)]

\* `Ok(expression)` of a recursive activation: the caller has its locals
\* back and calls evaluate on the expression returned.
ReturnToCaller(m) ==
  LET caller == m.callers[Len(m.callers)]
  IN [m EXCEPT !.pc = "group_eval",
               !.callers = SubSeq(@, 1, Len(@) - 1),
               !.chars = caller.chars,
               !.idx = caller.idx,
               !.expression = caller.expression,
               !.current_determined_operation =
                 caller.current_determined_operation,
               !.accumulated_text = caller.accumulated_text,
               !.inside_parenthesis = caller.inside_parenthesis,
               !.temp_operations = EvalEntry(m.expression).temp_operations,
               !.i = EvalEntry(m.expression).i,
               !.result = EvalEntry(m.expression).result]

\* PushGroup that leaves the text of the group in the buffer.
PushGroup_keeps_buffer(m) ==
  AfterStructure(
    [m EXCEPT !.pc = "new",
              !.expression =
                push_op(m.expression, m.current_determined_operation, m.result)],
    ")")

\* evaluate of the group returns: its value is pushed with the current
\* kind, the buffer is cleared, and the iteration on `)` goes on.
PushGroup(m) ==
  AfterStructure(
    [m EXCEPT !.pc = "new",
              !.expression =
                push_op(m.expression, m.current_determined_operation, m.result),
              !.accumulated_text = <<>>],
    ")")

\* app calls evaluate on the Expression that new returned.
BeginEvaluate(m) ==
  [m EXCEPT !.pc = "eval",
            !.temp_operations = EvalEntry(m.expression).temp_operations,
            !.i = EvalEntry(m.expression).i,
            !.result = EvalEntry(m.expression).result]

EvalLocals(m) ==
  [temp_operations |-> m.temp_operations, i |-> m.i, result |-> m.result]

\* LoopEvaluate reducing the terms of the Expression itself, not a clone.
LoopEvaluate_in_place(m) ==
  LET es == EvalStep(EvalLocals(m))
  IN [m EXCEPT !.temp_operations = es.temp_operations,
               !.expression = es.temp_operations,
               !.i = es.i,
               !.result = es.result]

\* One iteration of the while loop of the running evaluate.
LoopEvaluate(m) ==
  LET es == EvalStep(EvalLocals(m))
  IN [m EXCEPT !.temp_operations = es.temp_operations,
               !.i = es.i,
               !.result = es.result]

\* evaluate returns to app.
ReturnValue(m) == [m EXCEPT !.pc = "done", !.value = m.result]

\* Where the machine is.
Scanning(m) == m.pc = "new" /\ m.idx < Len(m.chars)
AtChars(m, S) == Scanning(m) /\ m.chars[m.idx + 1] \in S
AtGroupEnd(m) == AtChars(m, {")"}) /\ m.inside_parenthesis
AtStrayClose(m) == AtChars(m, {")"}) /\ ~m.inside_parenthesis
AtLoopEnd(m) == m.pc = "new" /\ m.idx = Len(m.chars)
Evaluating(m) == m.pc \in {"eval", "group_eval"}
InLoop(m) == Evaluating(m) /\ m.i < Len(m.temp_operations)
LoopOver(m) == Evaluating(m) /\ ~(m.i < Len(m.temp_operations))

\* One step of the machine.
Step(m) ==
  CASE AtGroupEnd(m) -> CallGroup(m)
    [] Scanning(m) /\ ~AtGroupEnd(m) -> Iterate(m)
    [] AtLoopEnd(m) /\ m.callers = <<>> -> ReturnToApp(m)
    [] AtLoopEnd(m) /\ m.callers # <<>> -> ReturnToCaller(m)
    [] m.pc = "parsed" -> BeginEvaluate(m)
    [] InLoop(m) -> LoopEvaluate(m)
    [] LoopOver(m) /\ m.pc = "group_eval" -> PushGroup(m)
    [] LoopOver(m) /\ m.pc = "eval" -> ReturnValue(m)

\* The machine when app calls Expression::new(text).
Start(text) ==
  Enter([pc |-> "new",
         text |-> text,
         chars |-> <<>>,
         idx |-> 0,
         expression |-> <<>>,
         current_determined_operation |-> "Add",
         accumulated_text |-> <<>>,
         inside_parenthesis |-> FALSE,
         callers |-> <<>>,
         outcome |-> NoOutcome,
         temp_operations |-> <<>>,
         i |-> 0,
         result |-> Zero,
         value |-> Zero],
        text)

RECURSIVE RunNew(_)
RunNew(m) == IF m.pc \in {"parsed", "failed"} THEN m ELSE RunNew(Step(m))

\* Expression::new as a function of the text: what it returns.
new(text) == RunNew(Start(text)).outcome

\* ---------------------------------------------------------------- inputs

Alphabet ==
  {"0", "2"} \cup OperatorChars \cup {".", "(", ")", " ", "\t"}

SeqsUpTo(S, n) == UNION {[1..k -> S] : k \in 0..n}

\* Every text of at most MaxLen characters.
ShortInputs == SeqsUpTo(Alphabet, MaxLen)

\* Longer lines, as the tests write them: two or three operands joined by
\* operators, an operand being a number or, once in a line, a group of two
\* numbers; written without spaces or, the lines of two operands and those
\* without a group, also with one space around every operator.
FamilyNumbers == {<<"2">>, <<"0", ".", "5">>}
Spacings == {<<>>, <<" ">>}
Joined(a, o, b, sp) == a \o sp \o <<o>> \o sp \o b
Groups(sp) ==
  {<<"(">> \o Joined(a, o, b, sp) \o <<")">> :
     a \in FamilyNumbers, o \in OperatorChars, b \in FamilyNumbers}
Pairs(A, B, sp) ==
  {Joined(a, o, b, sp) : a \in A, o \in OperatorChars, b \in B}
Triples(A, B, C, sp) ==
  {Joined(Joined(a, o, b, sp), p, c, sp) :
     a \in A, o \in OperatorChars, b \in B, p \in OperatorChars, c \in C}
FlatInputs ==
  UNION {Pairs(FamilyNumbers, FamilyNumbers, sp)
           \cup Triples(FamilyNumbers, FamilyNumbers, FamilyNumbers, sp) :
         sp \in Spacings}
GroupInputs ==
  UNION {Pairs(Groups(sp), FamilyNumbers, sp)
           \cup Pairs(FamilyNumbers, Groups(sp), sp) : sp \in Spacings}
  \cup Triples(Groups(<<>>), FamilyNumbers, FamilyNumbers, <<>>)
  \cup Triples(FamilyNumbers, Groups(<<>>), FamilyNumbers, <<>>)
  \cup Triples(FamilyNumbers, FamilyNumbers, Groups(<<>>), <<>>)
FamilyInputs == FlatInputs \cup GroupInputs

\* Lines with a number written directly before a group, as in `2(3+4)`.
JuxtaposedInputs == {a \o g : a \in FamilyNumbers, g \in Groups(<<>>)}

\* Lines of two numbers with a run of two or three operators between them.
OperatorRuns == UNION {[1..k -> OperatorChars] : k \in 2..3}
RunInputs ==
  {a \o run \o b : a \in FamilyNumbers, run \in OperatorRuns, b \in FamilyNumbers}

Inputs == ShortInputs \cup FamilyInputs \cup JuxtaposedInputs \cup RunInputs

\* Term sequences built directly, as the test of evaluate builds one.
Operands == {Zero, F(2, 1)}
Terms == {Operation(kind, num) : kind \in OperationKind, num \in Operands}
TermSeqs == SeqsUpTo(Terms, MaxTerms)
LoopTerms == {Operation(kind, F(2, 1)) : kind \in OperationKind}

\* Receivers and arguments of the tests of operate_with.
TestOperands == Operands \cup {F(-1, 1), F(1, 2), PosInf, NaN}
TestCalls ==
  {[self |-> Operation(kind, num), other |-> other, returned |-> <<>>] :
     kind \in OperationKind, num \in TestOperands, other \in TestOperands}
NoCall == [self |-> Operation("Add", Zero), other |-> Zero, returned |-> <<>>]

\* ----------------------------------------------------------------- state

VARIABLES
  pc,                            \* where the run is
  text,                          \* the line app hands to Expression::new
  chars, idx,                    \* the loop of new: its vector, its position
  expression,                    \* expression.operations
  current_determined_operation,
  accumulated_text,
  inside_parenthesis,
  callers,                       \* the activations of new waiting at a `)`
  outcome,                       \* what new returned to app
  temp_operations, i, result,    \* the locals of evaluate
  value,                         \* what evaluate returned to app
  operate                        \* a direct call of operate_with

vars == <<pc, text, chars, idx, expression, current_determined_operation,
          accumulated_text, inside_parenthesis, callers, outcome,
          temp_operations, i, result, value, operate>>

Machine ==
  [pc |-> pc,
   text |-> text,
   chars |-> chars,
   idx |-> idx,
   expression |-> expression,
   current_determined_operation |-> current_determined_operation,
   accumulated_text |-> accumulated_text,
   inside_parenthesis |-> inside_parenthesis,
   callers |-> callers,
   outcome |-> outcome,
   temp_operations |-> temp_operations,
   i |-> i,
   result |-> result,
   value |-> value]

Is(m) ==
  /\ pc = m.pc
  /\ text = m.text
  /\ chars = m.chars
  /\ idx = m.idx
  /\ expression = m.expression
  /\ current_determined_operation = m.current_determined_operation
  /\ accumulated_text = m.accumulated_text
  /\ inside_parenthesis = m.inside_parenthesis
  /\ callers = m.callers
  /\ outcome = m.outcome
  /\ temp_operations = m.temp_operations
  /\ i = m.i
  /\ result = m.result
  /\ value = m.value

Becomes(m) ==
  /\ pc' = m.pc
  /\ text' = m.text
  /\ chars' = m.chars
  /\ idx' = m.idx
  /\ expression' = m.expression
  /\ current_determined_operation' = m.current_determined_operation
  /\ accumulated_text' = m.accumulated_text
  /\ inside_parenthesis' = m.inside_parenthesis
  /\ callers' = m.callers
  /\ outcome' = m.outcome
  /\ temp_operations' = m.temp_operations
  /\ i' = m.i
  /\ result' = m.result
  /\ value' = m.value
  /\ UNCHANGED operate

\* The machine takes its step (computed once, then assigned).
Advance == \E next \in {Step(Machine)} : Becomes(next)

\* app calls Expression::new on the line read.
Init == operate = NoCall /\ \E line \in Inputs : Is(Start(line))

ScanOperator == AtChars(Machine, OperatorChars) /\ Advance
ScanOpen == AtChars(Machine, {"("}) /\ Advance
ScanStrayClose == AtStrayClose(Machine) /\ Advance
ScanGroupEnd == AtGroupEnd(Machine) /\ Advance
ScanOther ==
  /\ Scanning(Machine)
  /\ ~AtChars(Machine, OperatorChars \cup {"(", ")"})
  /\ Advance
NewReturn ==
  AtLoopEnd(Machine) /\ callers = <<>> /\ Advance
GroupParsed ==
  AtLoopEnd(Machine) /\ callers # <<>> /\ Advance
EvalBegin == pc = "parsed" /\ Advance
EvalAbsorb ==
  InLoop(Machine) /\ Absorbs(EvalLocals(Machine)) /\ Advance
EvalApply ==
  InLoop(Machine) /\ ~Absorbs(EvalLocals(Machine)) /\ Advance
GroupEvaluated ==
  LoopOver(Machine) /\ pc = "group_eval" /\ Advance
EvalReturn == LoopOver(Machine) /\ pc = "eval" /\ Advance

Next ==
  \/ ScanOperator
  \/ ScanOpen
  \/ ScanStrayClose
  \/ ScanGroupEnd
  \/ ScanOther
  \/ NewReturn
  \/ GroupParsed
  \/ EvalBegin
  \/ EvalAbsorb
  \/ EvalApply
  \/ GroupEvaluated
  \/ EvalReturn

\* A line is parsed and evaluated.
Spec == Init /\ [][Next]_vars

\* An Expression built as a literal, not by new.
Built(operations) ==
  [Start(<<>>) EXCEPT !.pc = "parsed",
                      !.chars = <<>>,
                      !.expression = operations,
                      !.outcome = Ok(operations)]

\* The test is about to build its Expression.
InitEval == operate = NoCall /\ Is([Built(<<>>) EXCEPT !.pc = "build"])

\* `Expression { operations: vec![..] }`
BuildExpression ==
  /\ pc = "build"
  /\ \E operations \in TermSeqs : Becomes(Built(operations))

NextEval ==
  \/ BuildExpression
  \/ EvalBegin
  \/ EvalAbsorb
  \/ EvalApply
  \/ EvalReturn

\* evaluate of a built Expression.
SpecEval == InitEval /\ [][NextEval]_vars

\* `Expression { operations: vec![..] }` with one operand for every term:
\* the loop of evaluate chooses its branch by the kinds and the length alone.
BuildKinds ==
  /\ pc = "build"
  /\ \E operations \in SeqsUpTo(LoopTerms, MaxTerms) : Becomes(Built(operations))

NextLoop ==
  \/ BuildKinds
  \/ EvalBegin
  \/ EvalAbsorb
  \/ EvalApply
  \/ EvalReturn

\* evaluate is an ordinary call of a sequential program: it runs on until
\* it returns.
FairSpecEval == InitEval /\ [][NextLoop]_vars /\ WF_vars(NextLoop)

InitOperate ==
  /\ operate \in TestCalls
  /\ Is([Start(<<>>) EXCEPT !.pc = "test", !.chars = <<>>])

\* `op.operate_with(&other)`
Operate ==
  /\ pc = "test"
  /\ operate.returned = <<>>
  /\ operate' =
       [operate EXCEPT !.returned = <<operate_with(operate.self, operate.other)>>]
  /\ UNCHANGED <<pc, text, chars, idx, expression,
                 current_determined_operation, accumulated_text,
                 inside_parenthesis, callers, outcome, temp_operations, i,
                 result, value>>

NextOperate == Operate

\* A direct call of operate_with.
SpecOperate == InitOperate /\ [][NextOperate]_vars

\* ------------------------------------------------- the value of a text
\* Arithmetic as it is taught, on a text without spaces: a sum splits at its
\* last top-level `+` or `-`, a product at its last top-level `*` or `/`, an
\* operand is a number or a group.  Each operator yields [ok, v]: whether the
\* text is well formed, and its value.

Ill == [ok |-> FALSE, v |-> Zero]
Well(v) == [ok |-> TRUE, v |-> v]

Unspaced(s) == SelectSeq(s, IsNotSpace)

Maximum(K) == CHOOSE k \in K : \A j \in K : j <= k

Count(s, k, c) == Cardinality({j \in 1..(k - 1) : s[j] = c})
\* The last place of s outside every group that holds a character of S, or 0.
LastTop(s, S) ==
  LET K == {k \in 1..Len(s) :
              s[k] \in S /\ Count(s, k, "(") = Count(s, k, ")")}
  IN IF K = {} THEN 0 ELSE Maximum(K)

Before(s, k) == SubSeq(s, 1, k - 1)
After(s, k) == SubSeq(s, k + 1, Len(s))

RECURSIVE NatOf(_)
NatOf(ds) ==
  IF ds = <<>> THEN 0
  ELSE DigitVal(Head(ds)) * Pow10(Len(ds) - 1) + NatOf(Tail(ds))

AllDigits(ds) == ds # <<>> /\ \A k \in 1..Len(ds) : ds[k] \in DigitSet

\* digits, or digits `.` digits
RefNumber(a) ==
  LET k == LastTop(a, {"."})
  IN IF k = 0
     THEN (IF AllDigits(a) THEN Well(F(NatOf(a), 1)) ELSE Ill)
     ELSE IF AllDigits(Before(a, k)) /\ AllDigits(After(a, k))
          THEN Well(FAdd(F(NatOf(Before(a, k)), 1),
                         F(NatOf(After(a, k)), Pow10(Len(After(a, k))))))
          ELSE Ill

Combine(l, o, r) ==
  IF ~(l.ok /\ r.ok) THEN Ill
  ELSE Well(CASE o = "+" -> FAdd(l.v, r.v)
              [] o = "-" -> FSub(l.v, r.v)
              [] o = "*" -> FMul(l.v, r.v)
              [] o = "/" -> FDiv(l.v, r.v))

RECURSIVE RefFlatProduct(_)
RefFlatProduct(q) ==
  LET k == LastTop(q, {"*", "/"})
  IN IF k = 0 THEN RefNumber(q)
     ELSE Combine(RefFlatProduct(Before(q, k)), q[k], RefNumber(After(q, k)))

RECURSIVE RefFlatSum(_)
\* A text without parentheses; a sign may lead it.
RefFlatSum(s) ==
  LET k == LastTop(s, {"+", "-"})
  IN IF k = 0 THEN RefFlatProduct(s)
     ELSE IF k = 1 THEN Combine(Well(Zero), s[k], RefFlatProduct(After(s, k)))
     ELSE Combine(RefFlatSum(Before(s, k)), s[k], RefFlatProduct(After(s, k)))

HasParenthesis(s) == \E k \in 1..Len(s) : s[k] \in {"(", ")"}

\* A number, or one group around a text without parentheses.
RefOperand(a) ==
  IF Len(a) >= 2 /\ a[1] = "(" /\ a[Len(a)] = ")"
  THEN (IF HasParenthesis(SubSeq(a, 2, Len(a) - 1)) THEN Ill
        ELSE RefFlatSum(SubSeq(a, 2, Len(a) - 1)))
  ELSE RefNumber(a)

RECURSIVE RefProduct(_)
RefProduct(q) ==
  LET k == LastTop(q, {"*", "/"})
  IN IF k = 0 THEN RefOperand(q)
     ELSE Combine(RefProduct(Before(q, k)), q[k], RefOperand(After(q, k)))

RECURSIVE RefSum(_)
RefSum(s) ==
  LET k == LastTop(s, {"+", "-"})
  IN IF k = 0 THEN RefProduct(s)
     ELSE IF k = 1 THEN Combine(Well(Zero), s[k], RefProduct(After(s, k)))
     ELSE Combine(RefSum(Before(s, k)), s[k], RefProduct(After(s, k)))

RECURSIVE RefChain(_)
\* Numbers joined by `+` and `-`: [ok, terms], a term per number.
RefChain(s) ==
  LET k == LastTop(s, {"+", "-"})
      number == RefNumber(After(s, k))
      kind == IF k = 0 \/ s[k] = "+" THEN "Add" ELSE "Subtract"
      last == <<Operation(kind, number.v)>>
  IN IF ~number.ok THEN [ok |-> FALSE, terms |-> <<>>]
     ELSE IF k = 0 THEN [ok |-> TRUE, terms |-> last]
     ELSE LET front == RefChain(Before(s, k))
          IN [ok |-> front.ok, terms |-> front.terms \o last]

RECURSIVE SignedSum(_)
\* 0, then each term added or subtracted, left to right.
SignedSum(terms) ==
  IF terms = <<>> THEN Zero
  ELSE LET front == SignedSum(Before(terms, Len(terms)))
           term == terms[Len(terms)]
       IN IF term.kind = "Add" THEN FAdd(front, term.num)
          ELSE FSub(front, term.num)

NumberChars == DigitSet \cup {"."}
\* Spaces stand between two characters of one number.
SpaceSplitsNumber(s) ==
  \E a, c \in 1..Len(s) :
    /\ a + 1 < c
    /\ s[a] \in NumberChars
    /\ s[c] \in NumberChars
    /\ \A k \in (a + 1)..(c - 1) : s[k] = " "

Additive(term) == term.kind \in {"Add", "Subtract"}

RECURSIVE ApplyRun(_, _, _)
\* v through the Multiply and Divide terms from place j on, left to right.
ApplyRun(terms, j, v) ==
  IF j > Len(terms) \/ Additive(terms[j]) THEN v
  ELSE ApplyRun(terms, j + 1,
                IF terms[j].kind = "Multiply" THEN FMul(v, terms[j].num)
                ELSE FDiv(v, terms[j].num))

RECURSIVE SumOfProducts(_, _, _)
\* The products of the Add and Subtract terms from place k on, added to or
\* subtracted from acc in order.
SumOfProducts(terms, k, acc) ==
  IF k > Len(terms) THEN acc
  ELSE IF ~Additive(terms[k]) THEN SumOfProducts(terms, k + 1, acc)
  ELSE LET product == ApplyRun(terms, k + 1, terms[k].num)
       IN SumOfProducts(terms, k + 1,
                        IF terms[k].kind = "Add" THEN FAdd(acc, product)
                        ELSE FSub(acc, product))

\* ---------------------------------------------------------------- claims

Returned == pc \in {"parsed", "failed"}
Finished == pc \in {"done", "failed"}

\* C1: evaluate of a term sequence whose first term is Add or Subtract
\* returns the sum, from 0 and left to right, of the products of its Add and
\* Subtract terms, each product being the term's operand taken through the
\* Multiply and Divide terms that follow it, left to right.
C1_EvaluateStandardPrecedence ==
  (pc = "done" /\ expression # <<>> /\ Additive(expression[1]))
    => value = SumOfProducts(expression, 1, Zero)

C1_Witness ==
  /\ pc = "done"
  /\ Len(expression) = 3
  /\ expression[1].kind = "Subtract"
  /\ expression[2].kind = "Divide"
  /\ expression[3].kind = "Multiply"
  /\ value = F(-2, 1)

\* C2: a well-formed line whose groups are one level deep parses, and
\* evaluates to its value under standard precedence with each group taken
\* as its own value.
C2_GroupsEvaluateAsValues ==
  LET line == RefSum(Unspaced(text))
  IN (Finished /\ line.ok /\ ~SpaceSplitsNumber(text))
       => (pc = "done" /\ value = line.v)

C2_Witness ==
  /\ pc = "done"
  /\ RefSum(Unspaced(text)).ok
  /\ \E k \in 2..Len(text) : text[k] = "(" /\ text[k - 1] = "-"
  /\ Len(expression) = 3
  /\ expression[2] = Operation("Subtract", F(5, 2))
  /\ expression[3].kind = "Divide"
  /\ value = F(-3, 1)

\* C3: a line of numbers joined by `+` and `-`, with or without spaces,
\* parses to one term per number in the order of the line, and evaluates to
\* the signed sum of the numbers from 0, left to right.
C3_PlusMinusChain ==
  LET chain == RefChain(Unspaced(text))
  IN (Finished /\ chain.ok /\ ~SpaceSplitsNumber(text))
       => /\ pc = "done"
          /\ outcome = Ok(chain.terms)
          /\ value = SignedSum(chain.terms)

C3_Witness ==
  /\ pc = "done"
  /\ RefChain(Unspaced(text)).ok
  /\ \E k \in 1..Len(text) : text[k] = " "
  /\ Len(outcome.operations) = 3
  /\ outcome.operations[2].kind = "Subtract"
  /\ outcome.operations[3].kind = "Add"

\* C4: operate_with returns n + x for Add(n), x - n for Subtract(n), n * x
\* for Multiply(n) and x / n for Divide(n).
C4_OperateWithTable ==
  LET n == operate.self.num
      x == operate.other
  IN operate.returned # <<>>
       => operate.returned[1] =
            CASE operate.self.kind = "Add" -> FAdd(n, x)
              [] operate.self.kind = "Subtract" -> FSub(x, n)
              [] operate.self.kind = "Multiply" -> FMul(n, x)
              [] operate.self.kind = "Divide" -> FDiv(x, n)

C4_Witness ==
  /\ operate.self = Operation("Divide", F(2, 1))
  /\ operate.other = F(-1, 1)
  /\ operate.returned = <<F(-1, 2)>>

\* C5: when the scan is at a `(` with the inside-parenthesis flag set, new
\* fails with ExtraParenthesis carrying the buffer, and returns no Expression.
C5_NestedOpenFails ==
  [][(AtChars(Machine, {"("}) /\ inside_parenthesis)
       => (pc' = "failed"
           /\ outcome' = Failure("ExtraParenthesis", accumulated_text))]_vars

C5_Witness ==
  /\ pc = "failed"
  /\ outcome.tag = "ExtraParenthesis"
  /\ inside_parenthesis
  /\ chars[idx + 1] = "("
  /\ accumulated_text # <<>>

\* C6: when the scan is at a `)` with the inside-parenthesis flag clear, new
\* fails with ExtraParenthesis carrying the buffer, and returns no Expression.
C6_StrayCloseFails ==
  [][(AtChars(Machine, {")"}) /\ ~inside_parenthesis)
       => (pc' = "failed"
           /\ outcome' = Failure("ExtraParenthesis", accumulated_text))]_vars

C6_Witness ==
  /\ pc = "failed"
  /\ outcome.tag = "ExtraParenthesis"
  /\ ~inside_parenthesis
  /\ chars[idx + 1] = ")"
  /\ accumulated_text # <<>>
  /\ outcome.text = accumulated_text

\* A `(` with no `)` after it.
UnclosedOpen(s) ==
  \E k \in 1..Len(s) : s[k] = "(" /\ \A j \in (k + 1)..Len(s) : s[j] # ")"

\* new returned after its scan had come to the element of chars at place k
\* counted from the end (1: the empty string after the last character).
ScanCameTo(k) == pc = "parsed" \/ idx >= Len(chars) - k

\* C7: a line with a `(` that no later `)` closes, so that the
\* inside-parenthesis flag is set at the end of the line, makes new fail
\* with ExtraParenthesis.
C7_UnclosedOpenFails ==
  (Returned /\ UnclosedOpen(text) /\ ScanCameTo(1))
    => (pc = "failed" /\ outcome.tag = "ExtraParenthesis")

\* The last character of the line that is not a space is an operator, and
\* no group is open there.
EndsWithOperator(s) ==
  LET K == {k \in 1..Len(s) : s[k] # " "}
  IN K # {} /\ s[Maximum(K)] \in OperatorChars /\ ~UnclosedOpen(s)

\* C8: a line whose last character that is not a space is an operator
\* outside parentheses makes new fail with ToF64ParseError.
C8_TrailingOperatorFails ==
  (Returned /\ EndsWithOperator(text) /\ ScanCameTo(2))
    => (pc = "failed" /\ outcome.tag = "ToF64ParseError")

\* The measure of the loop of evaluate: every iteration lowers it by one.
Measure == 2 * Len(temp_operations) - i

\* C9: evaluate returns for every term sequence, also one that begins with
\* Multiply or Divide terms: an iteration removes one term and keeps the
\* index, or keeps the terms and advances the index, and the loop ends.
C9_EvaluateTerminates ==
  /\ [][InLoop(Machine)
          => \/ /\ Len(temp_operations') = Len(temp_operations) - 1
                /\ i' = i
             \/ /\ Len(temp_operations') = Len(temp_operations)
                /\ i' = i + 1]_vars
  /\ [](InLoop(Machine) => Measure > 0)
  /\ <>(pc = "done")

C9_Witness ==
  /\ pc = "done"
  /\ Len(expression) = 3
  /\ expression[1].kind = "Multiply"
  /\ expression[2].kind = "Divide"

InsertAt(s, k, c) == SubSeq(s, 1, k) \o <<c>> \o SubSeq(s, k + 1, Len(s))

\* new returns for the line with c put in or taken out at any place what it
\* returned for the line.
Insignificant(c) ==
  /\ \A k \in 0..Len(text) : new(InsertAt(text, k, c)) = outcome
  /\ \A k \in 1..Len(text) : text[k] = c => new(RemoveAt(text, k)) = outcome

\* C10 as written: spaces and tabs are insignificant at every place.
C10_WhitespaceInsignificant ==
  Returned => (Insignificant(" ") /\ Insignificant("\t"))

\* C10, amended: a space is insignificant at every place of the line, also
\* between the characters of a number; a tab is insignificant at the start
\* and at the end of the line.
C10_SpacesInsignificant ==
  Returned
    => /\ Insignificant(" ")
       /\ new(<<"\t">> \o text) = outcome
       /\ new(text \o <<"\t">>) = outcome
       /\ (text # <<>> /\ text[1] = "\t") => new(Tail(text)) = outcome
       /\ (text # <<>> /\ text[Len(text)] = "\t")
            => new(Before(text, Len(text))) = outcome

C10_Witness ==
  /\ pc = "parsed"
  /\ Len(text) = 3
  /\ text[1] \in DigitSet
  /\ text[2] = " "
  /\ text[3] \in DigitSet
  /\ Len(outcome.operations) = 1

\* The place in chars of the `(` that opened the group the scan is in.
OpenPlace == Maximum({k \in 1..idx : chars[k] = "("})
\* The characters between that `(` and the element the scan is at.
SinceOpen == SubSeq(chars, OpenPlace + 1, idx)

\* C11: at the `)` that closes a group, the text handed to the recursive
\* call is the characters between the `(` of the group and that `)`.
C11_GroupTextIsBetweenParentheses ==
  AtGroupEnd(Machine) => accumulated_text = SinceOpen

\* C12: evaluate of an Expression that new returned never has a Multiply or
\* Divide term at its index i: the term the iteration works on is Add or
\* Subtract, in the absorb branch and in the apply branches.
C12_CurrentTermIsAdditive ==
  InLoop(Machine) => Additive(temp_operations[i + 1])

\* The places of the first and of the last operator of a text.
FirstOperator(s) ==
  CHOOSE k \in 1..Len(s) :
    s[k] \in OperatorChars /\ \A j \in 1..(k - 1) : s[j] \notin OperatorChars
LastOperator(s) == LastTop(s, OperatorChars)
\* number, two or more operators, number
IsOperatorRun(s) ==
  /\ ~HasParenthesis(s)
  /\ LastOperator(s) > 0
  /\ FirstOperator(s) < LastOperator(s)
  /\ \A k \in FirstOperator(s)..LastOperator(s) : s[k] \in OperatorChars
  /\ RefNumber(Before(s, FirstOperator(s))).ok
  /\ RefNumber(After(s, LastOperator(s))).ok

\* C13: a line of a number, a run of two or more operators and a number
\* parses without error to two terms, none for the empty buffers inside the
\* run: the first number as Add, the second with the kind of the last
\* operator of the run.
C13_OperatorRunTakesLast ==
  LET s == Unspaced(text)
  IN (Returned /\ IsOperatorRun(s) /\ ~SpaceSplitsNumber(text))
       => outcome =
            Ok(<<Operation("Add", RefNumber(Before(s, FirstOperator(s))).v),
                 Operation(KindOf(s[LastOperator(s)]),
                           RefNumber(After(s, LastOperator(s))).v)>>)

C13_Witness ==
  /\ pc = "parsed"
  /\ text = <<"2", "-", "*", "/", "0", ".", "5">>
  /\ outcome.operations =
       <<Operation("Add", F(2, 1)), Operation("Divide", F(1, 2))>>

\* The place after the number that follows the first character of s.
NumberEnd(s) ==
  IF \A k \in 2..Len(s) : s[k] \in NumberChars THEN Len(s) + 1
  ELSE CHOOSE k \in 2..Len(s) :
         s[k] \notin NumberChars /\ \A j \in 2..(k - 1) : s[j] \in NumberChars
\* The number that follows the first character of s.
LeadingNumber(s) == RefNumber(SubSeq(s, 2, NumberEnd(s) - 1))
\* An operator and a number begin the line.
LeadsWithOperator(s) ==
  /\ Len(s) >= 2
  /\ s[1] \in OperatorChars
  /\ LeadingNumber(s).ok
\* The number ends at the end of the line or at an operator.
NumberIsDelimited(s) ==
  NumberEnd(s) <= Len(s) => s[NumberEnd(s)] \in OperatorChars

\* C14: a line that begins with an operator and a number gets no term for
\* the empty buffer before the operator: the first term new returns has the
\* operator's kind, and its operand is the number when an operator or the
\* end of the line follows it.  The line of just the operator and the
\* number is accepted with that one term, and after `+` or `-` it evaluates
\* to the number added to or subtracted from 0.
C14_LeadingOperatorAccepted ==
  LET s == Unspaced(text)
      first == Operation(KindOf(s[1]), LeadingNumber(s).v)
  IN (Finished /\ LeadsWithOperator(s) /\ ~SpaceSplitsNumber(text))
       => /\ outcome.tag = "Ok"
               => /\ outcome.operations # <<>>
                  /\ outcome.operations[1].kind = first.kind
                  /\ NumberIsDelimited(s) => outcome.operations[1] = first
          /\ NumberEnd(s) > Len(s)
               => /\ pc = "done"
                  /\ outcome = Ok(<<first>>)
                  /\ s[1] = "+" => value = first.num
                  /\ s[1] = "-" => value = FSub(Zero, first.num)

C14_Witness ==
  /\ pc = "done"
  /\ text = <<"-", "2">>
  /\ outcome = Ok(<<Operation("Subtract", F(2, 1))>>)
  /\ value = F(-2, 1)

\* The operator kind in effect at the `(` of the group the scan is in: that
\* of the last operator outside parentheses before it, Add if there is none.
KindAtOpen ==
  LET front == SubSeq(chars, 1, OpenPlace - 1)
      k == LastTop(front, OperatorChars)
  IN IF k = 0 THEN "Add" ELSE KindOf(front[k])

\* C15: with the inside-parenthesis flag set, the iteration on an operator
\* appends it to the buffer and leaves the terms and the operator kind of
\* the enclosing Expression as they are; the term pushed at the `)` has the
\* kind that was in effect at the `(`.
C15_OperatorsInsideAreText ==
  [][/\ (AtChars(Machine, OperatorChars) /\ inside_parenthesis)
          => (/\ pc' = "new"
              /\ accumulated_text' = Append(accumulated_text, chars[idx + 1])
              /\ expression' = expression
              /\ current_determined_operation' = current_determined_operation
              /\ inside_parenthesis')
     /\ (LoopOver(Machine) /\ pc = "group_eval")
          => (expression' =
                Append(expression, Operation(KindAtOpen, result)))]_vars

C15_Witness ==
  /\ pc = "parsed"
  /\ text = <<"2", "*", "(", "2", "-", "0", ".", "5", ")">>
  /\ outcome = Ok(<<Operation("Add", F(2, 1)), Operation("Multiply", F(3, 2))>>)

\* C16: new is never more than one call deep: the text handed to the
\* recursive call holds no parenthesis, so the nested activation makes no
\* call of its own and never fails with ExtraParenthesis.
C16_OneLevelOfRecursion ==
  /\ [](/\ Len(callers) <= 1
        /\ AtGroupEnd(Machine) => ~HasParenthesis(accumulated_text)
        /\ callers # <<>> => (~HasParenthesis(chars) /\ ~inside_parenthesis))
  /\ [][(callers # <<>> /\ pc' = "failed")
          => outcome'.tag # "ExtraParenthesis"]_vars

C16_Witness ==
  /\ pc = "new"
  /\ Len(callers) = 1
  /\ callers[1].chars = <<"", "0", ".", "5", "/", "(", "2", "+", "2", ")", "">>
  /\ chars = <<"", "2", "+", "2", "">>
  /\ idx = 3

\* a is a run of consecutive characters of s.
IsSubstring(a, s) ==
  \E k \in 0..(Len(s) - Len(a)) : SubSeq(s, k + 1, k + Len(a)) = a

\* C17: the text that a ToF64ParseError carries is a run of consecutive
\* characters of the line with its spaces removed.
C17_ErrorTextIsSubstring ==
  (pc = "failed" /\ outcome.tag = "ToF64ParseError")
    => IsSubstring(outcome.text, Unspaced(text))

\* C18: no step of evaluate changes the terms of the Expression it was
\* called on, although it removes and rewrites terms of its working copy;
\* evaluate of the Expression as it is after the call returns the same value.
C18_EvaluateLeavesExpression ==
  /\ [][pc = "eval" => expression' = expression]_vars
  /\ [](pc \in {"eval", "done"} => expression = outcome.operations)
  /\ [](pc = "done" => value = evaluate(expression))

C18_Witness ==
  /\ pc = "done"
  /\ expression = <<Operation("Subtract", F(2, 1)),
                    Operation("Multiply", F(2, 1)),
                    Operation("Divide", Zero)>>
  /\ temp_operations = <<Operation("Subtract", PosInf)>>
  /\ value = NegInf

\* The scan has just closed a group `()` with nothing between its
\* parentheses.
ClosedEmptyGroup ==
  /\ pc = "new"
  /\ idx >= 2
  /\ chars[idx] = ")"
  /\ chars[idx - 1] = "("

\* C19: the empty line and the line of spaces parse to an Expression with
\* no terms, which evaluates to 0; a group `()` adds one term with operand
\* 0 to the enclosing Expression, and the line `()` parses to that one term.
C19_EmptyTextAndEmptyGroup ==
  /\ (Finished /\ Unspaced(text) = <<>>)
       => (pc = "done" /\ outcome = Ok(<<>>) /\ value = Zero)
  /\ (pc = "done" /\ outcome = Ok(<<>>)) => value = Zero
  /\ ClosedEmptyGroup
       => (expression # <<>> /\ expression[Len(expression)].num = Zero)
  /\ (Finished /\ Unspaced(text) = <<"(", ")">>)
       => (pc = "done" /\ outcome = Ok(<<Operation("Add", Zero)>>))

====
